---- MODULE Spec2Model ----
(***************************************************************************)
(* Verification model of the Atlassian MCP server.                         *)
(*                                                                         *)
(*  - the cursor-following pagination loop shared by handleSearchPages,    *)
(*    handleSearchByLabelInSpace and handleListPagesInSpace                *)
(*    (src/unnamed/part_003), checked under SpecPage;                      *)
(*  - the Streamable-HTTP POST /mcp handler (src/unnamed/part_002, the     *)
(*    same text as the first half of src/src/server.ts), checked under     *)
(*    Spec;                                                                *)
(*  - the single-message POST /mcp handlers of the other builds            *)
(*    (src/unnamed/part_001, part_003, part_004) and GET /mcp, checked     *)
(*    under Spec.                                                          *)
(***************************************************************************)
EXTENDS Integers, Sequences, FiniteSets, TLC

VARIABLES
    \* ---- paginated tool call (part_003) ----
    pc,          \* "idle" | "loop" | "done" | "threw": position of the tool handler
    tool,        \* which handler runs
    params,      \* the handler's argument object
    credentials, \* whether CONFLUENCE_BASE_URL / EMAIL / API_TOKEN are all set
    upstream,    \* the Confluence search service the call talks to
    collected,   \* const collected: any[]
    nextCursor,  \* let nextCursor
    firstPage,   \* let firstPage
    pageCount,   \* let pageCount
    fetches,     \* number of httpFetch calls issued by this call (history)
    res,         \* const res = await httpFetch(...): the last response
    out,         \* the value the handler returned
    prev,        \* the result of the call whose nextCursor this call resumes from
    \* ---- POST /mcp of the Streamable-HTTP server (part_002) ----
    hpc,         \* "idle" | "handled" (mcpHandler of part_002 has run) |
                 \* "answered" (mcpHandler of a single-message build has run) |
                 \* "rejected" (a body parser failed) | "got" (mcpGetHandler has run)
    req,         \* the request: Accept, Mcp-Session-Id, body
    wantsSse,    \* let wantsSse
    response,    \* the express Response object `res`
    sseLog,      \* the writeSse calls made on the response, in order
    deferred,    \* promises of handleConfluenceAsync that have not settled
    sessions,    \* const sessions = new Set<string>()
    randomIds,   \* number of ids cryptoRandomId() / randomUUID() has produced
    \* ---- the build that serves the request, and what it was sent ----
    build,       \* "part_001" | "part_002" | "part_003" | "part_004" | "server.ts"
                 \* ("none" before)
    wire,        \* Content-Type and text of the body before the body parsers
    interval     \* whether the keep-alive timer of mcpGetHandler is armed

pageVars == <<pc, tool, params, credentials, upstream, collected, nextCursor,
              firstPage, pageCount, fetches, res, out, prev>>

httpVars == <<hpc, req, wantsSse, response, sseLog, deferred, sessions, randomIds,
              build, wire, interval>>

vars == <<pageVars, httpVars>>

----------------------------------------------------------------------------
(* Bounds of the model *)

MaxLimitArg == 2
MaxBudget == 2
MaxStart == 1
MaxTotal == 10
MaxCap == 2
MaxBatch == 2
MaxAccept == 2
MaxKeepAlive == 2

(* Program constants *)

DefaultLimit == 50
MaxLimit == 100
PageCeiling == 20

----------------------------------------------------------------------------
(* Optional values: undefined is None, a present value v is Some(v) *)

None == <<>>

Some(v) == <<v>>

IsSome(o) == o # <<>>

Min(a, b) == IF a < b THEN a ELSE b

Max(a, b) == IF a > b THEN a ELSE b

\* Array.prototype.slice(0, n)
Slice(s, n) == SubSeq(s, 1, Min(Len(s), n))

----------------------------------------------------------------------------
(* Characters of cursor tokens and their percent-encoding.  A string is a  *)
(* sequence of character codes; codes from ContentBase on stand for the    *)
(* unreserved characters of a token.                                       *)

ChPercent == 37

ChAmp == 38

ChEq == 61

ContentBase == 1000

\* the two hex digits that follow '%' for a reserved character
HexOf(c) == IF c = ChPercent THEN <<50, 53>>
            ELSE IF c = ChAmp THEN <<50, 54>>
            ELSE <<51, 68>>

Reserved == {ChPercent, ChAmp, ChEq}

RECURSIVE encodeURIComponent(_)
encodeURIComponent(s) ==
    IF s = <<>> THEN <<>>
    ELSE (IF Head(s) \in Reserved THEN <<ChPercent>> \o HexOf(Head(s)) ELSE <<Head(s)>>)
         \o encodeURIComponent(Tail(s))

RECURSIVE decodeURIComponent(_)
decodeURIComponent(s) ==
    IF s = <<>> THEN <<>>
    ELSE IF Head(s) = ChPercent /\ Len(s) >= 3
         THEN LET hex == SubSeq(s, 2, 3)
                  c == CHOOSE r \in Reserved \cup {0} :
                          \/ r \in Reserved /\ HexOf(r) = hex
                          \/ r = 0 /\ \A q \in Reserved : HexOf(q) # hex
              IN <<c>> \o decodeURIComponent(SubSeq(s, 4, Len(s)))
         ELSE <<Head(s)>> \o decodeURIComponent(Tail(s))

----------------------------------------------------------------------------
(* The upstream service: a stable ordering of items 1, 2, 3, ...           *)
(* upstream.total is the number of items (Unbounded: the listing never     *)
(* ends), upstream.cap the largest page the service returns.               *)

Unbounded == -1

\* the opaque token the service issues for "continue after `off` items"
CursorToken(off) == <<ContentBase + off, ChEq>>

IsCursorToken(t) == Len(t) = 2 /\ t[1] >= ContentBase /\ t[2] = ChEq

NoLink == <<>>

\* _links.next of a page: the query string of the next request
NextLink(off, lim) ==
    << [key |-> "next", val |-> <<ContentBase>>],
       [key |-> "cursor", val |-> encodeURIComponent(CursorToken(off))],
       [key |-> "limit", val |-> <<ContentBase + lim>>] >>

\* the service's answer to GET /wiki/rest/api/search?{qs} when it succeeds
UpstreamPage(up, qs) ==
    LET cur == decodeURIComponent(qs.cursor)
        off == IF qs.cursor # <<>> THEN cur[1] - ContentBase
               ELSE IF IsSome(qs.start) THEN qs.start[1] ELSE 0
        size == Min(qs.limit, up.cap)
        last == IF up.total = Unbounded THEN off + size ELSE Min(off + size, up.total)
        more == up.total = Unbounded \/ off + size < up.total
    IN [ok |-> TRUE, status |-> 200,
        results |-> [i \in 1..Max(last - off, 0) |-> off + i],
        start |-> off, limit |-> size, size |-> Max(last - off, 0),
        next |-> IF more THEN NextLink(off + size, size) ELSE NoLink]

\* a cursor the service never issued is rejected
UpstreamRejects(qs) == qs.cursor # <<>> /\ ~IsCursorToken(decodeURIComponent(qs.cursor))

FailureStatuses == {429, 500}

UpstreamFailure(status) == [ok |-> FALSE, status |-> status]

----------------------------------------------------------------------------
(* Argument normalisation of the paginated handlers *)

\* Math.min(Math.max(Number(params?.limit) || 50, 1), 100)
Limit(p) ==
    LET n == IF IsSome(p.limit) /\ p.limit[1] # 0 THEN p.limit[1] ELSE DefaultLimit
    IN Min(Max(n, 1), MaxLimit)

\* Math.max(Number.isFinite(Number(params?.maxResults)) ? Number(params?.maxResults) : 0, 0)
MaxResults(p) == IF IsSome(p.maxResults) THEN Max(p.maxResults[1], 0) ELSE 0

\* params?.autoPaginate !== false || maxResults > 0
AutoPaginate(p) == p.autoPaginate # Some(FALSE) \/ MaxResults(p) > 0

RequiredInputs(t) ==
    IF t = "searchPages" THEN <<"query">>
    ELSE IF t = "searchByLabelInSpace" THEN <<"label", "spaceKey">>
    ELSE <<"spaceKey">>

RECURSIVE MissingOf(_, _)
MissingOf(required, given) ==
    IF required = <<>> THEN <<>>
    ELSE (IF Head(required) \in given THEN <<>> ELSE <<Head(required)>>)
         \o MissingOf(Tail(required), given)

Missing(t, p) == MissingOf(RequiredInputs(t), p.given)

toolError(code, details) == [kind |-> "error", code |-> code, details |-> details]

----------------------------------------------------------------------------
(* One pass of the do/while loop *)

\* const qs = new URLSearchParams(...): start only without a cursor
QueryString(p, cursor) ==
    [limit |-> Limit(p),
     start |-> IF IsSome(p.start) /\ cursor = <<>> THEN p.start ELSE None,
     cursor |-> encodeURIComponent(cursor)]

\* /[?&]cursor=([^&]+)/ on a link, then decodeURIComponent; '' when it does not match
RECURSIVE CursorOf(_)
CursorOf(link) ==
    IF link = <<>> THEN <<>>
    ELSE IF Head(link).key = "cursor" /\ Head(link).val # <<>>
         THEN decodeURIComponent(Head(link).val)
         ELSE CursorOf(Tail(link))

\* the loop condition with the budget test off by one (<= for <)
ContinueLoopBudgetInclusive(auto, cursor, maxResults, nCollected, nPages) ==
    /\ auto
    /\ cursor # <<>>
    /\ (maxResults = 0 \/ nCollected <= maxResults)
    /\ nPages < 20

\* the loop condition without the test of nextCursor
ContinueLoopIgnoresCursor(auto, cursor, maxResults, nCollected, nPages) ==
    /\ auto
    /\ (maxResults = 0 \/ nCollected < maxResults)
    /\ nPages < 20

\* the loop condition with the ceiling test off by one (<= for <)
ContinueLoopCeilingInclusive(auto, cursor, maxResults, nCollected, nPages) ==
    /\ auto
    /\ cursor # <<>>
    /\ (maxResults = 0 \/ nCollected < maxResults)
    /\ nPages <= 20

\* while (autoPaginate && nextCursor && (maxResults === 0 || collected.length < maxResults) && pageCount < 20)
ContinueLoop(auto, cursor, maxResults, nCollected, nPages) ==
    /\ auto
    /\ cursor # <<>>
    /\ (maxResults = 0 \/ nCollected < maxResults)
    /\ nPages < PageCeiling

\* the result without the slice
ResultsUnsliced(items, maxResults) == items

\* const results = maxResults > 0 ? collected.slice(0, maxResults) : collected
Results(items, maxResults) == IF maxResults > 0 THEN Slice(items, maxResults) ELSE items

\* the pagination object, built from firstPage
Pagination(first) ==
    [start |-> first.start, limit |-> first.limit, size |-> first.size,
     nextCursor |-> CursorOf(first.next)]

\* return toolError('UPSTREAM_ERROR', `Confluence API ${res.status}: ...`)
UpstreamError(r) == toolError("UPSTREAM_ERROR", [status |-> r.status])

\* return { cql, results, pagination, ui }
Success(items, first, p) ==
    [kind |-> "ok", results |-> Results(items, MaxResults(p)),
     pagination |-> Pagination(first)]

----------------------------------------------------------------------------
(* Inputs *)

Tools == {"searchPages", "searchByLabelInSpace", "listPagesInSpace"}

BigBudget == PageCeiling + 1

LimitArgs == {None} \cup {Some(n) : n \in 1..MaxLimitArg}

BudgetArgs == {None} \cup {Some(n) : n \in 1..MaxBudget} \cup {Some(BigBudget)}

StartArgs == {None} \cup {Some(n) : n \in 1..MaxStart}

CursorArgs == {<<>>, CursorToken(MaxStart + 1), <<ContentBase>>}

ParamSets(t) ==
    [limit : LimitArgs, start : StartArgs, cursor : CursorArgs,
     maxResults : BudgetArgs, autoPaginate : {None, Some(FALSE)},
     given : {{"query", "label", "spaceKey"}}]
    \cup
    [limit : {None}, start : {None}, cursor : {<<>>},
     maxResults : {None}, autoPaginate : {None},
     given : SUBSET {"query", "label", "spaceKey"}]

Upstreams == [total : {Unbounded} \cup 0..MaxTotal, cap : 1..MaxCap]

NoPage == [ok |-> FALSE, status |-> 0]

NoOut == [kind |-> "none"]

----------------------------------------------------------------------------
(* The handler as a state machine *)

PageInit ==
    /\ pc = "idle"
    /\ tool = "searchPages"
    /\ params = [limit |-> None, start |-> None, cursor |-> <<>>,
                 maxResults |-> None, autoPaginate |-> None,
                 given |-> {"query", "label", "spaceKey"}]
    /\ credentials = TRUE
    /\ upstream = [total |-> 0, cap |-> 1]
    /\ collected = <<>>
    /\ nextCursor = <<>>
    /\ firstPage = NoPage
    /\ pageCount = 0
    /\ fetches = 0
    /\ res = NoPage
    /\ out = NoOut
    /\ prev = NoOut

\* entry of handleSearchPages / handleSearchByLabelInSpace / handleListPagesInSpace
\* up to the first pass of the loop
Enter(t, p, creds, up) ==
    /\ tool' = t
    /\ params' = p
    /\ credentials' = creds
    /\ upstream' = up
    /\ collected' = <<>>
    /\ firstPage' = NoPage
    /\ pageCount' = 0
    /\ fetches' = 0
    /\ res' = NoPage
    /\ IF ~creds
       THEN /\ out' = toolError("MISSING_CREDENTIALS", [missing |-> <<>>])
            /\ pc' = "done"
            /\ nextCursor' = <<>>
       ELSE IF Missing(t, p) # <<>>
       THEN /\ out' = toolError("MISSING_INPUT", [missing |-> Missing(t, p)])
            /\ pc' = "done"
            /\ nextCursor' = <<>>
       ELSE /\ out' = NoOut
            /\ pc' = "loop"
            /\ nextCursor' = p.cursor

StartCall ==
    /\ pc = "idle"
    /\ \E t \in Tools, creds \in BOOLEAN, up \in Upstreams :
         \E p \in ParamSets(t) :
            /\ creds \/ p.limit = None
            /\ Enter(t, p, creds, up)
    /\ prev' = NoOut
    /\ UNCHANGED httpVars

\* a loop that treats a failed fetch as the end of the listing and returns
\* what it has
LoopPassKeepsPartial(r) ==
    /\ res' = r
    /\ IF ~r.ok
       THEN /\ out' = [kind |-> "ok", results |-> collected,
                       pagination |-> [start |-> 0, limit |-> 0, size |-> 0,
                                       nextCursor |-> <<>>]]
            /\ pc' = "done"
            /\ UNCHANGED <<collected, nextCursor, firstPage, pageCount>>
       ELSE /\ firstPage' = (IF firstPage.ok THEN firstPage ELSE r)
            /\ collected' = collected \o r.results
            /\ nextCursor' = <<>>
            /\ pageCount' = pageCount + 1
            /\ pc' = "loop"
            /\ out' = out

\* the body of the do/while loop once, its condition, and what follows the loop
\* when the condition is false
LoopPass(r) ==
    /\ res' = r
    /\ IF ~r.ok
       THEN /\ out' = UpstreamError(r)
            /\ pc' = "done"
            /\ UNCHANGED <<collected, nextCursor, firstPage, pageCount>>
       ELSE
         LET first == IF firstPage.ok THEN firstPage ELSE r
             items == collected \o r.results
             cursor == CursorOf(r.next)
             n == pageCount + 1
         IN /\ firstPage' = first
            /\ collected' = items
            /\ nextCursor' = cursor
            /\ pageCount' = n
            /\ IF ContinueLoop(AutoPaginate(params), cursor, MaxResults(params), Len(items), n)
               THEN /\ pc' = "loop"
                    /\ out' = out
               ELSE /\ pc' = "done"
                    /\ out' = Success(items, first, params)

FetchPage ==
    /\ pc = "loop"
    /\ fetches' = fetches + 1
    /\ LET qs == QueryString(params, nextCursor)
       IN IF UpstreamRejects(qs)
          THEN LoopPass(UpstreamFailure(400))
          ELSE LoopPass(UpstreamPage(upstream, qs))
    /\ UNCHANGED <<tool, params, credentials, upstream, prev>>
    /\ UNCHANGED httpVars

\* the service answers this fetch with a non-success status
FetchFails ==
    /\ pc = "loop"
    /\ fetches' = fetches + 1
    /\ \E s \in FailureStatuses : LoopPass(UpstreamFailure(s))
    /\ UNCHANGED <<tool, params, credentials, upstream, prev>>
    /\ UNCHANGED httpVars

\* httpFetch rejects (a network failure): the await throws, no try/catch is
\* around it, and the handler's promise rejects
FetchRejects ==
    /\ pc = "loop"
    /\ fetches' = fetches + 1
    /\ pc' = "threw"
    /\ out' = [kind |-> "threw"]
    /\ UNCHANGED <<tool, params, credentials, upstream, prev, collected, nextCursor,
                   firstPage, pageCount, res>>
    /\ UNCHANGED httpVars

\* the caller feeds pagination.nextCursor back as the cursor of a new call
ResumeCall ==
    /\ pc = "done"
    /\ out.kind = "ok"
    /\ out.pagination.nextCursor # <<>>
    /\ prev = NoOut
    /\ prev' = out
    /\ Enter(tool, [params EXCEPT !.cursor = out.pagination.nextCursor], credentials, upstream)
    /\ UNCHANGED httpVars

PageNext == StartCall \/ FetchPage \/ FetchFails \/ FetchRejects \/ ResumeCall


----------------------------------------------------------------------------
(* POST /mcp: the request *)

\* a JSON-RPC envelope: id and method are None when the key is absent
Envelope(id, method, name) == [id |-> id, method |-> method, name |-> name]

Ids == {None, Some(0), Some(1)}

PlainMethods == {None, Some("initialize"), Some("tools/list"),
                 Some("notifications/initialized"), Some("bogus"), Some("Tools/List")}

ToolNames == {"echo", "confluence.listSpaces", "doesNotExist"}

Envelopes ==
    {Envelope(i, m, "") : i \in Ids, m \in PlainMethods}
    \cup {Envelope(i, Some("tools/call"), n) : i \in Ids, n \in ToolNames}

SeqsUpTo(S, n) == UNION {[1..k -> S] : k \in 0..n}

\* the parsed body: one envelope object, or an array of envelopes
Bodies ==
    {[isArray |-> FALSE, value |-> <<m>>] : m \in Envelopes}
    \cup {[isArray |-> TRUE, value |-> b] : b \in SeqsUpTo(Envelopes, MaxBatch)}

\* one entry of an Accept header: its media type and its parameters as written
MediaTypes == {"text/event-stream", "Text/Event-Stream", "application/json", "*/*"}

QTexts == {"1", "0.9", "0.5", "0", "abc"}

AcceptParams == {<<>>} \cup {<<[name |-> "q", text |-> t]>> : t \in QTexts}
                \cup {<<[name |-> "charset", text |-> "1"], [name |-> "q", text |-> "0.5"]>>}

AcceptEntries == [type : MediaTypes, params : AcceptParams]

AcceptHeaders == {None} \cup {Some(h) : h \in SeqsUpTo(AcceptEntries, MaxAccept) \ {<<>>}}

Plain(t) == [type |-> t, params |-> <<>>]

WithQ(t, q) == [type |-> t, params |-> <<[name |-> "q", text |-> q]>>]

\* the Accept headers the batches are run with
TransportHeaders ==
    {None, Some(<<Plain("text/event-stream")>>),
     Some(<<Plain("text/event-stream"), WithQ("application/json", "0.5")>>)}

SessionHeaders == {None, Some(""), Some("s1")}

Requests ==
    [accept : TransportHeaders, sessionId : SessionHeaders, body : Bodies]
    \cup
    [accept : AcceptHeaders, sessionId : {None},
     body : {[isArray |-> FALSE, value |-> <<Envelope(Some(1), Some("tools/list"), "")>>]}]

\* the builds whose POST handler takes a batch: part_002, and src/src/server.ts,
\* whose handler has the text of part_002 and a longer list of tool descriptors
BatchBuilds == {"part_002", "server.ts"}

\* tools only the descriptors of src/src/server.ts name
ServerTsToolNames == {"confluence.getPage", "confluence.me"}

\* the requests src/src/server.ts is run with: calls of the tools it lists
ServerTsRequests ==
    [accept : TransportHeaders, sessionId : {None},
     body : {[isArray |-> FALSE, value |-> <<Envelope(i, Some("tools/call"), n)>>] :
                i \in Ids, n \in ServerTsToolNames \cup {"echo"}}]

RequestsOf(b) == IF b = "part_002" THEN Requests ELSE ServerTsRequests

\* the names of the descriptors tools/list returns (getToolDescriptors,
\* handleToolsList)
ListedTools(b) ==
    IF b = "part_001" THEN {"searchByLabelInSpace"}
    ELSE IF b = "part_002"
    THEN {"help", "echo", "confluence.listSpaces", "confluence.summarizePage",
          "confluence.createPage"}
    ELSE IF b = "server.ts"
    THEN {"help", "echo", "confluence.listSpaces", "confluence.summarizePage",
          "confluence.createPage", "confluence.updatePage", "confluence.getPage",
          "confluence.listChildren", "confluence.listComments", "confluence.addComment",
          "confluence.updateComment", "confluence.search", "confluence.getSpace",
          "confluence.me"}
    ELSE {"search", "searchPages", "searchByLabelInSpace", "listLabels", "listSpaces",
          "listPagesInSpace", "describeTools"}

----------------------------------------------------------------------------
(* POST /mcp: envelope normalisation and the 202 test *)

\* const items = isArray ? payload : [payload]
Items(body) == body.value

\* the test with only the method looked at
IsRequestByMethodOnly(m) == IsSome(m.method)

\* m && typeof m === 'object' && 'method' in m && 'id' in m
IsRequest(m) == IsSome(m.method) /\ IsSome(m.id)

\* items.some(...)
hasRequests(items) == \E i \in DOMAIN items : IsRequest(items[i])

\* items.every(m => ... (!('method' in m) || !('id' in m)))
hasOnlyNoReq(items) == \A i \in DOMAIN items : ~IsSome(items[i].method) \/ ~IsSome(items[i].id)

----------------------------------------------------------------------------
(* POST /mcp: Accept negotiation.  q-values are counted in tenths. *)

\* String.prototype.toLowerCase on a media type or a method name
toLowerCase(t) ==
    IF t = "Text/Event-Stream" THEN "text/event-stream"
    ELSE IF t = "INITIALIZE" THEN "initialize"
    ELSE IF t = "Tools/List" THEN "tools/list"
    ELSE IF t = "Ping" THEN "ping"
    ELSE t

\* parseFloat: None is NaN
parseFloat(t) ==
    IF t = "1" THEN Some(10)
    ELSE IF t = "0.9" THEN Some(9)
    ELSE IF t = "0.5" THEN Some(5)
    ELSE IF t = "0" THEN Some(0)
    ELSE None

\* params.find(p => p.startsWith('q='))
RECURSIVE FindQ(_)
FindQ(ps) ==
    IF ps = <<>> THEN None
    ELSE IF Head(ps).name = "q" THEN Some(Head(ps)) ELSE FindQ(Tail(ps))

\* one element of parseAccept's result
ParseEntry(e) ==
    LET qParam == FindQ(e.params)
        q == IF IsSome(qParam) THEN parseFloat(qParam[1].text) ELSE Some(10)
    IN [type |-> toLowerCase(e.type), q |-> IF IsSome(q) THEN q[1] ELSE 10]

\* req.header('Accept') || '' : the empty string splits into one entry of type ''
parseAccept(accept) ==
    IF IsSome(accept) THEN [i \in DOMAIN accept[1] |-> ParseEntry(accept[1][i])]
    ELSE <<[type |-> "", q |-> 10]>>

\* accepts.find(a => a.type === type)?.q ?? dflt
RECURSIVE FindType(_, _, _)
FindType(accepts, type, dflt) ==
    IF accepts = <<>> THEN dflt
    ELSE IF Head(accepts).type = type THEN Head(accepts).q
    ELSE FindType(Tail(accepts), type, dflt)

sseQ(accept) == FindType(parseAccept(accept), "text/event-stream", 0)

jsonQ(accept) == FindType(parseAccept(accept), "application/json", 10)

\* the comparison with >= for >
WantsSseOnTie(accept) == sseQ(accept) >= jsonQ(accept)

\* let wantsSse = sseQ > jsonQ
WantsSse(accept) == sseQ(accept) > jsonQ(accept)

----------------------------------------------------------------------------
(* POST /mcp: the per-method helpers *)

RandomIdNames == <<"r1", "r2", "r3", "r4", "r5", "r6", "r7", "r8">>

\* cryptoRandomId(): the n-th id produced
cryptoRandomId(n) == RandomIdNames[n]

\* a header value as a JavaScript condition: undefined and '' are falsy
Truthy(h) == IsSome(h) /\ h[1] # ""

\* handleInitialize: const newSessionId = sessionId || cryptoRandomId()
handleInitialize(msg, sessionId, used) ==
    [result |-> [id |-> msg.id, kind |-> "result", of |-> "initialize", code |-> 0],
     sessionId |-> IF Truthy(sessionId) THEN sessionId[1] ELSE cryptoRandomId(used + 1),
     used |-> IF Truthy(sessionId) THEN used ELSE used + 1]

handleToolsList(msg) == [id |-> msg.id, kind |-> "result", of |-> "tools/list", code |-> 0]

\* the error envelope without the name in its message
ToolNotFoundNameless(id, name) ==
    [id |-> id, kind |-> "error", of |-> "tools/call", code |-> -32601,
     message |-> <<"Tool not found: ">>, tool |-> "", outcome |-> ""]

\* { jsonrpc: '2.0', id, error: { code: -32601, message: `Tool not found: ${name}` } }
ToolNotFound(id, name) ==
    [id |-> id, kind |-> "error", of |-> "tools/call", code |-> -32601,
     message |-> <<"Tool not found: ", name>>, tool |-> "", outcome |-> ""]

\* handleToolsCall: a result, a deferred marker, or "Tool not found"
handleToolsCall(msg) ==
    IF msg.name \in {"help", "echo"}
    THEN [id |-> msg.id, kind |-> "result", of |-> "tools/call", code |-> 0]
    ELSE IF msg.name \in {"confluence.listSpaces", "confluence.summarizePage",
                          "confluence.createPage"}
    THEN [id |-> msg.id, kind |-> "defer", of |-> "tools/call", code |-> 0]
    ELSE ToolNotFound(msg.id, msg.name)

\* assignedSession || sessionId || cryptoRandomId()
EventSession(assigned, sessionId, used) ==
    IF IsSome(assigned) THEN [sid |-> assigned[1], used |-> used]
    ELSE IF Truthy(sessionId) THEN [sid |-> sessionId[1], used |-> used]
    ELSE [sid |-> cryptoRandomId(used + 1), used |-> used + 1]

\* writeSse(res, data, id) as a record of the call
SseWrite(i, sid, tag, data, ended) ==
    [item |-> i, sid |-> sid, tag |-> tag, data |-> data, afterEnd |-> ended]

----------------------------------------------------------------------------
(* POST /mcp: the stream branch *)

\* the state the for loop of the stream branch carries from item to item
SseStart(n) == [log |-> <<>>, assignedSession |-> None, used |-> n,
                deferred |-> {}, added |-> {}]

\* the body of `for (const msg of items)` in the stream branch, for items[i]
SseItem(st, i, msg, sessionId) ==
    IF msg.method = Some("initialize")
    THEN LET h == handleInitialize(msg, sessionId, st.used)
         IN [st EXCEPT
               !.assignedSession = IF IsSome(@) THEN @ ELSE Some(h.sessionId),
               !.used = h.used,
               !.added = @ \cup {h.sessionId},
               !.log = Append(@, SseWrite(i, h.sessionId, "init", h.result, FALSE))]
    ELSE IF msg.method = Some("tools/list")
    THEN LET e == EventSession(st.assignedSession, sessionId, st.used)
         IN [st EXCEPT
               !.used = e.used,
               !.log = Append(@, SseWrite(i, e.sid, "tools-list", handleToolsList(msg), FALSE))]
    ELSE IF msg.method = Some("tools/call")
    THEN LET e == EventSession(st.assignedSession, sessionId, st.used)
             o == handleToolsCall(msg)
         IN IF o.kind = "defer"
            THEN [st EXCEPT !.used = e.used,
                            !.deferred = @ \cup {[item |-> i, sid |-> e.sid, id |-> msg.id]}]
            ELSE [st EXCEPT !.used = e.used,
                            !.log = Append(@, SseWrite(i, e.sid, "tools-call", o, FALSE))]
    ELSE IF IsSome(msg.id) /\ msg.id[1] # 0 /\ IsSome(msg.method)
    THEN LET e == EventSession(st.assignedSession, sessionId, st.used)
         IN [st EXCEPT
               !.used = e.used,
               !.log = Append(@, SseWrite(i, e.sid, "err",
                          [id |-> msg.id, kind |-> "error", of |-> "unknown", code |-> -32601],
                          FALSE))]
    ELSE st

RECURSIVE SseLoop(_, _, _, _)
SseLoop(st, items, i, sessionId) ==
    IF i > Len(items) THEN st
    ELSE SseLoop(SseItem(st, i, items[i], sessionId), items, i + 1, sessionId)

NoResponse ==
    [status |-> 0, headersSent |-> FALSE, contentType |-> "", mcpSessionId |-> None,
     body |-> None, state |-> "open", endCalls |-> 0, threw |-> FALSE]

\* sseHeaders(res): the headers are set and flushed
sseHeaders(r) == [r EXCEPT !.contentType = "text/event-stream", !.status = 200,
                           !.headersSent = TRUE]

\* res.setHeader('Mcp-Session-Id', v): throws once the headers are sent; the
\* exception leaves the handler, and express, finding the headers sent, destroys
\* the socket
setSessionHeader(r, v) ==
    IF r.headersSent THEN [r EXCEPT !.threw = TRUE, !.state = "destroyed"]
    ELSE [r EXCEPT !.mcpSessionId = Some(v)]

\* res.end()
end(r) == [r EXCEPT !.state = IF @ = "open" THEN "ended" ELSE @,
                    !.endCalls = @ + 1, !.headersSent = TRUE,
                    !.status = IF @ = 0 THEN 200 ELSE @]

\* res.status(status).send(text)
send(r, status, text) ==
    [r EXCEPT !.contentType = "text/html", !.status = status, !.headersSent = TRUE,
              !.body = Some([id |-> None, kind |-> "plain", of |-> "none", code |-> 0,
                             message |-> <<text>>, tool |-> "", outcome |-> ""]),
              !.state = "ended", !.endCalls = @ + 1]

\* sendJson(res, obj)
sendJson(r, obj) ==
    IF r.headersSent THEN [r EXCEPT !.threw = TRUE]
    ELSE [r EXCEPT !.contentType = "application/json", !.status = 200,
                   !.headersSent = TRUE, !.body = Some(obj), !.state = "ended",
                   !.endCalls = @ + 1]

\* the stream branch of mcpHandler, from sseHeaders(res) to its return
SseBranch(items, sessionId) ==
    LET st == SseLoop(SseStart(randomIds), items, 1, sessionId)
        r1 == sseHeaders(NoResponse)
        r2 == IF IsSome(st.assignedSession)
              THEN setSessionHeader(r1, st.assignedSession[1]) ELSE r1
    IN /\ sseLog' = st.log
       /\ deferred' = st.deferred
       /\ sessions' = sessions \cup st.added
       /\ randomIds' = st.used
       /\ response' = IF r2.threw THEN r2 ELSE end(r2)

----------------------------------------------------------------------------
(* POST /mcp: the single-JSON branch *)

IsHandled(m) == m.method \in {Some("initialize"), Some("tools/list"), Some("tools/call")}

\* the first item the for loop of the JSON branch returns on (0: none)
FirstHandled(items) ==
    IF \E i \in DOMAIN items : IsHandled(items[i])
    THEN CHOOSE i \in DOMAIN items :
            IsHandled(items[i]) /\ \A j \in 1..(i - 1) : ~IsHandled(items[j])
    ELSE 0

InvalidRequest == [id |-> None, kind |-> "error", of |-> "none", code |-> -32600]

JsonBranch(items, sessionId) ==
    LET i == FirstHandled(items)
    IN /\ sseLog' = <<>>
       /\ IF i = 0
          THEN /\ response' = sendJson(NoResponse, InvalidRequest)
               /\ UNCHANGED <<deferred, sessions, randomIds>>
          ELSE IF items[i].method = Some("initialize")
          THEN LET h == handleInitialize(items[i], sessionId, randomIds)
               IN /\ response' = sendJson(setSessionHeader(NoResponse, h.sessionId), h.result)
                  /\ sessions' = sessions \cup {h.sessionId}
                  /\ randomIds' = h.used
                  /\ UNCHANGED deferred
          ELSE IF items[i].method = Some("tools/list")
          THEN /\ response' = sendJson(NoResponse, handleToolsList(items[i]))
               /\ UNCHANGED <<deferred, sessions, randomIds>>
          ELSE LET o == handleToolsCall(items[i])
               IN IF o.kind = "defer"
                  THEN /\ response' = NoResponse
                       /\ deferred' = {[item |-> i, sid |-> "", id |-> items[i].id]}
                       /\ UNCHANGED <<sessions, randomIds>>
                  ELSE /\ response' = sendJson(NoResponse, o)
                       /\ UNCHANGED <<deferred, sessions, randomIds>>

----------------------------------------------------------------------------
(* The single-message builds of the server (part_001, part_003, part_004):  *)
(* body parsers, POST /mcp, GET /mcp                                        *)

\* the builds whose POST handler takes one message per request
SingleBuilds == {"part_001", "part_003", "part_004"}

AllBuilds == SingleBuilds \cup {"part_002"}

\* method spellings a caller may send
SpelledMethods ==
    {"initialize", "INITIALIZE", "notifications/initialized",
     "notifications.initialized", "tools/list", "Tools/List", "ping", "Ping", "bogus"}

CallSpellings == {"tools/call", "tools_call"}

SingleToolNames ==
    {"search", "searchPages", "searchByLabelInSpace", "listSpaces", "listPagesInSpace",
     "listLabels", "describeTools", "doesNotExist"}

SingleEnvelopes ==
    {Envelope(i, None, "") : i \in Ids}
    \cup {Envelope(i, Some(m), "") : i \in Ids, m \in SpelledMethods}
    \cup {Envelope(i, Some(m), n) : i \in Ids, m \in CallSpellings, n \in SingleToolNames}

\* the body on the wire: empty, the JSON text of an envelope, or that text cut short
BodyTexts ==
    {<<>>} \cup {<<"{", e, "}">> : e \in SingleEnvelopes}
           \cup {<<"{", e>> : e \in {Envelope(Some(1), Some("tools/list"), ""),
                                      Envelope(None, Some("bogus"), "")}}

ContentTypes == {"application/json", "text/plain"}

NoWire == [contentType |-> "", text |-> <<>>]

\* JSON.parse(raw): None is a SyntaxError
JSONparse(text) ==
    IF Len(text) = 3 /\ text[1] = "{" /\ text[3] = "}" THEN Some(text[2]) ELSE None

\* the value of `{}` and of every object without id and method
EmptyObject == Envelope(None, None, "")

\* express.text({ type: ... }) of the build applies to this content type
TextParserAccepts(b, ct) ==
    IF b = "part_001" THEN FALSE
    ELSE IF b = "part_003" THEN ct \in {"text/plain", "application/json"}
    ELSE TRUE

\* app.use(express.json()) followed by app.use(mcpPaths, express.text(...)):
\* the value of req.body the handler receives, or the 400 error of the parser
bodyParsers(b, w) ==
    IF w.contentType = "application/json"
    THEN IF w.text = <<>> THEN [failed |-> FALSE, isString |-> FALSE, body |-> EmptyObject]
         ELSE IF IsSome(JSONparse(w.text))
         THEN [failed |-> FALSE, isString |-> FALSE, body |-> JSONparse(w.text)[1]]
         ELSE [failed |-> TRUE, isString |-> FALSE, body |-> EmptyObject]
    ELSE IF TextParserAccepts(b, w.contentType) /\ w.text # <<>>
    THEN [failed |-> FALSE, isString |-> TRUE, body |-> EmptyObject]
    ELSE [failed |-> FALSE, isString |-> FALSE, body |-> EmptyObject]

\* method.replace(/[._]/g, '/')
replaceSeparators(m) ==
    IF m = "notifications.initialized" THEN "notifications/initialized"
    ELSE IF m = "tools_call" THEN "tools/call"
    ELSE m

\* const norm = method.toLowerCase().replace(/[._]/g, '/'); part_001 compares method
norm(b, method) ==
    IF b = "part_001" THEN method ELSE replaceSeparators(toLowerCase(method))

\* the methods each branch of the dispatcher answers to
InitializeNames(b) ==
    IF b = "part_001" THEN {"initialize"} ELSE {"initialize", "mcp/initialize"}

InitializedNames(b) ==
    IF b = "part_001" THEN {"notifications/initialized"}
    ELSE {"notifications/initialized", "mcp/notifications/initialized"}

ToolsListNames(b) ==
    IF b = "part_001" THEN {"tools/list"} ELSE {"tools/list", "mcp/tools/list"}

ToolsCallNames(b) ==
    IF b = "part_001" THEN {"tools/call"} ELSE {"tools/call", "mcp/tools/call", "tool/call"}

PingNames(b) == IF b = "part_001" THEN {} ELSE {"ping", "mcp/ping"}

\* the tool handler the tools/call switch selects ("" for the default case)
ToolHandler(b, name) ==
    IF b = "part_001"
    THEN (IF name = "searchByLabelInSpace" THEN "handleSearchByLabelInSpace" ELSE "")
    ELSE IF name \in {"search", "searchPages"} THEN "handleSearchPages"
    ELSE IF name = "searchByLabelInSpace" THEN "handleSearchByLabelInSpace"
    ELSE IF name = "listSpaces" THEN "handleListSpaces"
    ELSE IF name = "listPagesInSpace" THEN "handleListPagesInSpace"
    ELSE IF name = "listLabels" THEN "handleListLabels"
    ELSE IF name = "describeTools" THEN "handleDescribeTools"
    ELSE ""

\* what a tool handler may return, or "throws" when its httpFetch rejects
ToolOutcomes(h) ==
    IF h = "handleDescribeTools" THEN {"ok"}
    ELSE {"ok", "MISSING_CREDENTIALS", "MISSING_INPUT", "UPSTREAM_ERROR", "throws"}

\* what becomes of the request when the async mcpHandler rejects: express 4
\* drops the rejection and the response is never sent; express 5 passes it to
\* the error middleware
RejectionFates == {"unanswered", "errorHandler"}

\* the status tool-not-found and unknown-method are sent with
NotFoundStatus(b) == IF b = "part_001" THEN 404 ELSE 200

\* a JSON-RPC response envelope with a result
ResultEnvelope(id, of, handler, outcome) ==
    [id |-> id, kind |-> "result", of |-> of, code |-> 0, message |-> <<>>,
     tool |-> handler, outcome |-> outcome]

\* a JSON-RPC response envelope with an error
ErrorEnvelope(id, of, code, message) ==
    [id |-> id, kind |-> "error", of |-> of, code |-> code, message |-> message,
     tool |-> "", outcome |-> ""]

ParseError == ErrorEnvelope(None, "none", -32700, <<"Parse error: invalid JSON">>)

\* randomUUID(): the n-th id produced
randomUUID(n) == RandomIdNames[n]

\* sendJson(res, payload, status = 200) of the single-message builds
sendJsonWithStatus(r, payload, status) ==
    [r EXCEPT !.contentType = "application/json", !.status = status,
              !.headersSent = TRUE, !.body = Some(payload), !.state = "ended",
              !.endCalls = @ + 1]

\* res.status(200).end()
endWithStatus(r, status) == end([r EXCEPT !.status = status])

\* the error middleware registered after the routes: the parser's 400 and a
\* body that is no JSON-RPC envelope
errorHandler(r, status) ==
    sendJsonWithStatus(r, [id |-> None, kind |-> "plain", of |-> "none", code |-> 0,
                           message |-> <<"Internal Server Error">>, tool |-> "",
                           outcome |-> ""], status)

\* the error middleware of part_002, registered after express.json()
parseErrorMiddleware(r) == sendJsonWithStatus(r, ParseError, 400)

\* mcpHandler of a single-message build on the message msg, to its return
dispatchSingle(b, msg, used, outcome) ==
    LET method == IF IsSome(msg.method) THEN msg.method[1] ELSE ""
        n == norm(b, method)
        sid == randomUUID(used + 1)
        withSession == setSessionHeader(NoResponse, sid)
    IN IF method = ""
       THEN [r |-> sendJsonWithStatus(withSession,
                       ResultEnvelope(msg.id, "initialize", "", ""), 200),
             used |-> used + 1]
       ELSE IF n \in InitializeNames(b)
       THEN [r |-> sendJsonWithStatus(withSession,
                       ResultEnvelope(msg.id, "initialize", "", ""), 200),
             used |-> used + 1]
       ELSE IF n \in InitializedNames(b)
       THEN [r |-> IF msg.id = None THEN endWithStatus(NoResponse, 200)
                   ELSE sendJsonWithStatus(NoResponse,
                            ResultEnvelope(msg.id, "notifications/initialized", "", ""), 200),
             used |-> used]
       ELSE IF n \in ToolsListNames(b)
       THEN [r |-> sendJsonWithStatus(NoResponse,
                       ResultEnvelope(msg.id, "tools/list", "", ""), 200),
             used |-> used]
       ELSE IF n \in ToolsCallNames(b)
       THEN [r |-> IF ToolHandler(b, msg.name) = ""
                   THEN sendJsonWithStatus(NoResponse, ToolNotFound(msg.id, msg.name),
                                           NotFoundStatus(b))
                   ELSE sendJsonWithStatus(NoResponse,
                            ResultEnvelope(msg.id, "tools/call", ToolHandler(b, msg.name),
                                           outcome), 200),
             used |-> used]
       ELSE IF n \in PingNames(b)
       THEN [r |-> sendJsonWithStatus(NoResponse, ResultEnvelope(msg.id, "ping", "", ""), 200),
             used |-> used]
       ELSE [r |-> sendJsonWithStatus(NoResponse,
                       ErrorEnvelope(msg.id, "unknown", -32601, <<"Unknown method: ", method>>),
                       NotFoundStatus(b)),
             used |-> used]

\* the message the handler of build b works on, given what the parsers delivered:
\* part_003 answers a string that does not parse; part_001 and part_004 go on with {}
messageOf(b, parsed, w) ==
    IF ~parsed.isString THEN [failed |-> FALSE, msg |-> parsed.body]
    ELSE IF IsSome(JSONparse(w.text)) THEN [failed |-> FALSE, msg |-> JSONparse(w.text)[1]]
    ELSE IF b = "part_003" THEN [failed |-> TRUE, msg |-> EmptyObject]
    ELSE [failed |-> FALSE, msg |-> EmptyObject]

\* Accept.includes('text/event-stream')
includesEventStream(accept) ==
    IsSome(accept) /\ \E i \in DOMAIN accept[1] : accept[1][i].type = "text/event-stream"

\* the Accept headers GET /mcp is probed with
GetAcceptHeaders ==
    {None, Some(<<Plain("text/event-stream")>>), Some(<<Plain("application/json")>>),
     Some(<<Plain("Text/Event-Stream")>>), Some(<<Plain("*/*")>>),
     Some(<<Plain("application/json"), WithQ("text/event-stream", "0.5")>>)}

\* a comment line written on an open stream
SseComment(text) == [item |-> 0, sid |-> "", tag |-> "comment", data |-> text, afterEnd |-> FALSE]

----------------------------------------------------------------------------
(* POST /mcp: the handler and the callbacks of its deferred calls *)

HttpInit ==
    /\ hpc = "idle"
    /\ req = [accept |-> None, sessionId |-> None,
              body |-> [isArray |-> TRUE, value |-> <<>>]]
    /\ wantsSse = FALSE
    /\ response = NoResponse
    /\ sseLog = <<>>
    /\ deferred = {}
    /\ sessions = {}
    /\ randomIds = 0
    /\ build = "none"
    /\ wire = NoWire
    /\ interval = FALSE

\* mcpHandler(req, res), to the point where it returns
Post ==
    /\ hpc = "idle"
    /\ \E b \in BatchBuilds : \E r \in RequestsOf(b) :
        LET items == Items(r.body)
        IN /\ req' = r
           /\ hpc' = "handled"
           /\ build' = b
           /\ wire' = NoWire
           /\ interval' = FALSE
           /\ IF hasOnlyNoReq(items) /\ ~hasRequests(items)
              THEN /\ response' = end([NoResponse EXCEPT !.status = 202])
                   /\ wantsSse' = FALSE
                   /\ sseLog' = <<>>
                   /\ UNCHANGED <<deferred, sessions, randomIds>>
              ELSE /\ wantsSse' = WantsSse(r.accept)
                   /\ IF WantsSse(r.accept)
                      THEN SseBranch(items, r.sessionId)
                      ELSE JsonBranch(items, r.sessionId)
    /\ UNCHANGED pageVars

\* handleConfluenceAsync(msg).then(...) / .catch(...): one deferred call settles
Settle(d, kind) ==
    LET data == [id |-> d.id, kind |-> kind, of |-> "tools/call",
                 code |-> IF kind = "error" THEN -32603 ELSE 0]
    IN /\ deferred' = deferred \ {d}
       /\ IF wantsSse
          THEN /\ sseLog' = Append(sseLog, SseWrite(d.item, d.sid, "tools-call", data,
                                                   response.state # "open"))
               /\ response' = end(response)
          ELSE /\ response' = sendJson(response, data)
               /\ sseLog' = sseLog
       /\ UNCHANGED <<hpc, req, wantsSse, sessions, randomIds, build, wire, interval>>
       /\ UNCHANGED pageVars

DeferredResolves == \E d \in deferred : Settle(d, "result")

DeferredRejects == \E d \in deferred : Settle(d, "error")

\* POST /mcp of a single-message build: the body parsers, then mcpHandler to its
\* return (the tool handler it awaits included), or the error middleware
PostSingle ==
    /\ hpc = "idle"
    /\ \E b \in SingleBuilds, w \in [contentType : ContentTypes, text : BodyTexts],
          s \in SessionHeaders :
        LET parsed == bodyParsers(b, w)
            m == messageOf(b, parsed, w)
            called == ToolHandler(b, m.msg.name)
            awaited == ~parsed.failed /\ ~m.failed /\ IsSome(m.msg.method)
                       /\ norm(b, m.msg.method[1]) \in ToolsCallNames(b) /\ called # ""
        IN \E o \in (IF awaited THEN ToolOutcomes(called) ELSE {""}),
              fate \in RejectionFates :
            LET d == dispatchSingle(b, m.msg, randomIds, o)
            IN /\ build' = b
               /\ wire' = w
               /\ req' = [accept |-> None, sessionId |-> s,
                          body |-> [isArray |-> FALSE,
                                    value |-> IF parsed.failed \/ m.failed
                                              THEN <<>> ELSE <<m.msg>>]]
               /\ IF parsed.failed
                  THEN /\ hpc' = "rejected"
                       /\ response' = errorHandler(NoResponse, 400)
                       /\ randomIds' = randomIds
                  ELSE IF m.failed
                  THEN /\ hpc' = "answered"
                       /\ response' = sendJsonWithStatus(NoResponse, ParseError, 200)
                       /\ randomIds' = randomIds
                  ELSE IF o = "throws"
                  THEN /\ hpc' = "answered"
                       /\ response' = IF fate = "errorHandler"
                                      THEN errorHandler(NoResponse, 500) ELSE NoResponse
                       /\ randomIds' = randomIds
                  ELSE /\ hpc' = "answered"
                       /\ response' = d.r
                       /\ randomIds' = d.used
    /\ wantsSse' = FALSE
    /\ sseLog' = <<>>
    /\ interval' = FALSE
    /\ UNCHANGED <<deferred, sessions>>
    /\ UNCHANGED pageVars

\* POST /mcp of part_002 with a JSON body that does not parse: express.json()
\* fails and the error middleware answers
PostMalformed ==
    /\ hpc = "idle"
    /\ \E t \in {x \in BodyTexts : x # <<>> /\ ~IsSome(JSONparse(x))},
          a \in TransportHeaders, s \in SessionHeaders :
        /\ wire' = [contentType |-> "application/json", text |-> t]
        /\ req' = [accept |-> a, sessionId |-> s,
                   body |-> [isArray |-> FALSE, value |-> <<>>]]
    /\ build' = "part_002"
    /\ hpc' = "rejected"
    /\ response' = parseErrorMiddleware(NoResponse)
    /\ wantsSse' = FALSE
    /\ sseLog' = <<>>
    /\ interval' = FALSE
    /\ UNCHANGED <<deferred, sessions, randomIds>>
    /\ UNCHANGED pageVars

\* mcpGetHandler(req, res), to its return
Get ==
    /\ hpc = "idle"
    /\ \E b \in AllBuilds, a \in GetAcceptHeaders :
        /\ build' = b
        /\ req' = [accept |-> a, sessionId |-> None,
                   body |-> [isArray |-> FALSE, value |-> <<>>]]
        /\ IF b = "part_003"
           THEN IF ~includesEventStream(a)
                THEN /\ response' = sendJsonWithStatus(NoResponse,
                                        [id |-> None, kind |-> "plain", of |-> "none",
                                         code |-> 0, message |-> <<"MCP endpoint">>,
                                         tool |-> "", outcome |-> ""], 200)
                     /\ sseLog' = <<>>
                     /\ interval' = FALSE
                ELSE /\ response' = sseHeaders(NoResponse)
                     /\ sseLog' = <<SseComment(": connected")>>
                     /\ interval' = TRUE
           ELSE IF ~includesEventStream(a)
                THEN /\ response' = send(NoResponse, 405, "Method Not Allowed")
                     /\ sseLog' = <<>>
                     /\ interval' = FALSE
                ELSE /\ response' = end(sseHeaders(NoResponse))
                     /\ sseLog' = <<>>
                     /\ interval' = FALSE
    /\ hpc' = "got"
    /\ wire' = NoWire
    /\ wantsSse' = FALSE
    /\ UNCHANGED <<deferred, sessions, randomIds>>
    /\ UNCHANGED pageVars

\* the setInterval callback of part_003's mcpGetHandler
KeepAlive ==
    /\ interval
    /\ Len(sseLog) <= MaxKeepAlive
    /\ sseLog' = Append(sseLog, SseComment(": keep-alive"))
    /\ UNCHANGED <<hpc, req, wantsSse, response, deferred, sessions, randomIds,
                   build, wire, interval>>
    /\ UNCHANGED pageVars

\* the 'close' event of the request fired when the request is complete, the
\* stream still open (node 16 and later): clearInterval(interval)
RequestCompletes ==
    /\ hpc = "got"
    /\ response.state = "open"
    /\ interval
    /\ interval' = FALSE
    /\ UNCHANGED <<hpc, req, wantsSse, response, sseLog, deferred, sessions, randomIds,
                   build, wire>>
    /\ UNCHANGED pageVars

\* the timer is left running when the client closes the stream
ClientClosesKeepsTimer ==
    /\ hpc = "got"
    /\ response.state = "open"
    /\ response' = [response EXCEPT !.state = "closed"]
    /\ UNCHANGED <<hpc, req, wantsSse, sseLog, deferred, sessions, randomIds, build, wire,
                   interval>>
    /\ UNCHANGED pageVars

\* req.on('close', () => clearInterval(interval))
ClientCloses ==
    /\ hpc = "got"
    /\ response.state = "open"
    /\ response' = [response EXCEPT !.state = "closed"]
    /\ interval' = FALSE
    /\ UNCHANGED <<hpc, req, wantsSse, sseLog, deferred, sessions, randomIds, build, wire>>
    /\ UNCHANGED pageVars

Next ==
    \/ Post \/ DeferredResolves \/ DeferredRejects
    \/ PostSingle \/ PostMalformed
    \/ Get \/ KeepAlive \/ RequestCompletes \/ ClientCloses

Init == PageInit /\ HttpInit

Spec == Init /\ [][Next]_vars

SpecPage == Init /\ [][PageNext]_vars

----------------------------------------------------------------------------
(* Properties of POST /mcp (checked under Spec) *)

Handled == hpc = "handled"

Batch == Items(req.body)

\* the response is delivered as an event stream
StreamSelected == response.contentType = "text/event-stream"

\* the positions of the Accept header's entries for media type t
EntriesFor(t) ==
    IF IsSome(req.accept)
    THEN {i \in DOMAIN req.accept[1] : toLowerCase(req.accept[1][i].type) = t}
    ELSE {}

\* the q-value an entry states, in tenths: its first q parameter if that is a
\* number, and 1.0 otherwise
StatedQ(e) ==
    LET qs == {j \in DOMAIN e.params : e.params[j].name = "q"}
    IN IF qs = {} THEN 10
       ELSE LET j == CHOOSE x \in qs : \A y \in qs : x <= y
            IN IF e.params[j].text \in {"1", "0.9", "0.5", "0"}
               THEN parseFloat(e.params[j].text)[1]
               ELSE 10

\* the q-value of media type t in the Accept header: that of its first entry
QualityOf(t, absent) ==
    IF EntriesFor(t) = {} THEN absent
    ELSE StatedQ(req.accept[1][CHOOSE x \in EntriesFor(t) : \A y \in EntriesFor(t) : x <= y])

AcceptIsWildcard ==
    IsSome(req.accept) /\ \A i \in DOMAIN req.accept[1] : req.accept[1][i].type = "*/*"

OnlyInitializeRequests ==
    /\ Batch # <<>>
    /\ \A i \in DOMAIN Batch : Batch[i].method = Some("initialize") /\ IsSome(Batch[i].id)

\* C2 (as claimed, for batches of initialize requests): the response carries the
\* Mcp-Session-Id header, and every initialize response of the batch is issued for
\* that session id, in both transports and with or without a request header.
C2_SessionHeaderOnInitialize ==
    (Handled /\ OnlyInitializeRequests)
        => /\ IsSome(response.mcpSessionId)
           /\ \A k \in DOMAIN sseLog :
                 sseLog[k].tag = "init" => Some(sseLog[k].sid) = response.mcpSessionId

\* C3: a non-empty batch is answered 202 with no body and no event exactly when
\* none of its envelopes has both an id and a method.
C3_AcceptedIffOnlyNotifications ==
    (Handled /\ Batch # <<>>)
        => ((response.status = 202 /\ response.body = None /\ sseLog = <<>>
             /\ response.contentType = "")
            <=> \A i \in DOMAIN Batch : ~(IsSome(Batch[i].id) /\ IsSome(Batch[i].method)))

C3_Witness ==
    /\ Handled /\ Len(Batch) = 2
    /\ response.status = 202 /\ response.state = "ended" /\ response.body = None
    /\ IsSome(Batch[1].method) /\ ~IsSome(Batch[1].id)
    /\ IsSome(Batch[2].id) /\ ~IsSome(Batch[2].method)

\* C4 (as claimed, for batches of requests the handler runs to its end on): in
\* the stream transport the events are written in the order of their requests in
\* the batch, at most one for each request.
C4_StreamKeepsBatchOrder ==
    (wantsSse /\ ~response.threw /\ \A i \in DOMAIN Batch : IsRequest(Batch[i]))
        => \A j, k \in DOMAIN sseLog : j < k => sseLog[j].item < sseLog[k].item

----------------------------------------------------------------------------
(* Properties of the paginated tool call (checked under SpecPage) *)

Completed == pc = "done" /\ out.kind = "ok"

\* the page size the service delivers for this call
PageSize == Min(Limit(params), upstream.cap)

\* the position in the service's ordering at which this call starts
StartOffset ==
    IF params.cursor # <<>> THEN params.cursor[1] - ContentBase
    ELSE IF IsSome(params.start) THEN params.start[1] ELSE 0

Ceil(a, b) == (a + b - 1) \div b

\* C5 (as claimed): a call resumed from pagination.nextCursor starts at the item
\* that follows the last item the first call returned (no duplicate, no gap).
C5_CursorRoundTrip ==
    (Completed /\ prev # NoOut /\ out.results # <<>> /\ prev.results # <<>>)
        => out.results[1] = prev.results[Len(prev.results)] + 1

\* every page the service serves carries a next cursor and exactly Limit items
AlwaysNextFullPages == upstream.total = Unbounded /\ upstream.cap >= Limit(params)

TenthPageIsLast ==
    /\ upstream.total # Unbounded
    /\ StartOffset + 9 * PageSize < upstream.total
    /\ StartOffset + 10 * PageSize >= upstream.total

\* C7 (as claimed): when the tenth page omits the next cursor, an auto-continuing
\* call stops after exactly ten fetches, whatever the budget.
C7_TenPagesOriginal ==
    (Completed /\ AutoPaginate(params) /\ TenthPageIsLast) => fetches = 10

\* C7 (amended): when the tenth page omits the next cursor, an auto-continuing call
\* stops after exactly ten fetches if maxResults is 0 or more than the items of the
\* first nine pages, and otherwise at the first page that reaches maxResults.
C7_TenPagesUnlessBudget ==
    (Completed /\ AutoPaginate(params) /\ TenthPageIsLast)
        => fetches = (IF MaxResults(params) = 0 \/ MaxResults(params) > 9 * PageSize
                      THEN 10
                      ELSE Ceil(MaxResults(params), PageSize))

C7_Witness ==
    /\ Completed /\ AutoPaginate(params) /\ TenthPageIsLast
    /\ MaxResults(params) > 9 * PageSize
    /\ fetches = 10 /\ pageCount = 10
    /\ nextCursor = <<>>

C10_BudgetBoundsResults ==
    (Completed /\ MaxResults(params) > 0) => Len(out.results) <= MaxResults(params)

C10_Witness ==
    /\ Completed /\ MaxResults(params) > 0
    /\ Len(collected) > MaxResults(params)
    /\ Len(out.results) = MaxResults(params)

----------------------------------------------------------------------------
(* Properties of the tool handlers' input checks (checked under SpecPage) *)

\* the arguments each tool requires, as its descriptor declares them
DeclaredRequired(t) ==
    IF t = "searchPages" THEN {"query"}
    ELSE IF t = "searchByLabelInSpace" THEN {"label", "spaceKey"}
    ELSE {"spaceKey"}

\* the required arguments the call leaves out
Omitted == DeclaredRequired(tool) \ params.given

\* C12 (as claimed): a call that omits a required argument returns a
\* missing-input indication naming exactly the omitted required arguments,
\* whether or not credentials are configured, and issues no upstream fetch.
C12_MissingInputEnumerated ==
    (pc = "done" /\ Omitted # {})
        => /\ out.kind = "error" /\ out.code = "MISSING_INPUT"
           /\ {out.details.missing[i] : i \in DOMAIN out.details.missing} = Omitted
           /\ fetches = 0

----------------------------------------------------------------------------
(* Properties of the dispatch of POST /mcp (checked under Spec) *)

\* the request is one envelope, posted alone
SingleEnvelope == Handled /\ Len(Batch) = 1

\* the responses the handler has produced for the envelope at position i
AnswersTo(i) ==
    IF wantsSse
    THEN {sseLog[k].data : k \in {j \in DOMAIN sseLog : sseLog[j].item = i}}
    ELSE IF IsSome(response.body) THEN {response.body[1]} ELSE {}

\* C13 (as claimed): an envelope with a present but unrecognized method is
\* answered, for every id and in both transports, with error -32601 and its id.
C13_UnknownMethodNotFound ==
    (SingleEnvelope /\ Batch[1].method = Some("bogus") /\ IsSome(Batch[1].id)
     /\ deferred = {})
        => \E a \in AnswersTo(1) :
              a.kind = "error" /\ a.code = -32601 /\ a.id = Batch[1].id

\* C14 (as claimed): an envelope without a method is answered as an initialize:
\* an initialize result in the body and a session id in the response header.
C14_MissingMethodInitializes ==
    (SingleEnvelope /\ Batch[1].method = None)
        => /\ \E a \in AnswersTo(1) : a.kind = "result" /\ a.of = "initialize"
           /\ IsSome(response.mcpSessionId)

\* C20 (as claimed): requests posted with `Accept: text/event-stream`, that media
\* type alone, are answered as an event stream.
C20_EventStreamAloneStreams ==
    (Handled /\ req.accept = Some(<<Plain("text/event-stream")>>) /\ hasRequests(Batch))
        => StreamSelected

----------------------------------------------------------------------------
(* Properties of the dispatcher across the builds (checked under Spec) *)

\* mcpHandler of a single-message build has answered the request
Answered == hpc = "answered"

\* the tools each build registers in its tools/list descriptors (part_002: the
\* tools its help text lists)
Registry(b) ==
    IF b = "part_001" THEN {"searchByLabelInSpace"}
    ELSE IF b = "part_002"
    THEN {"help", "echo", "confluence.listSpaces", "confluence.summarizePage",
          "confluence.createPage"}
    ELSE IF b = "server.ts"
    THEN {"help", "echo", "confluence.listSpaces", "confluence.summarizePage",
          "confluence.createPage", "confluence.getPage", "confluence.me"}
    ELSE {"search", "searchPages", "searchByLabelInSpace", "listSpaces",
          "listPagesInSpace", "listLabels", "describeTools"}

\* the envelopes of the request the handler dispatches: none of a batch it
\* acknowledges with 202, all of them in the stream transport, the first
\* supported one in the JSON transport
Dispatched ==
    IF Handled /\ response.status = 202 THEN {}
    ELSE IF Handled /\ wantsSse THEN DOMAIN Batch
    ELSE IF Handled THEN {FirstHandled(Batch)} \ {0}
    ELSE IF Answered THEN DOMAIN Batch
    ELSE {}

\* response a is the tool-not-found error for the envelope m
IsToolNotFound(a, m) ==
    /\ a.kind = "error" /\ a.code = -32601 /\ a.id = m.id
    /\ \E k \in DOMAIN a.message : a.message[k] = m.name
    /\ a.tool = ""

C15_SuppliedSessionReturned ==
    ((Handled \/ Answered) /\ ~wantsSse /\ Len(Batch) = 1
     /\ Batch[1].method = Some("initialize") /\ IsSome(Batch[1].id)
     /\ Truthy(req.sessionId))
        => response.mcpSessionId = req.sessionId

\* C16 (as claimed): every answer to a POST has a 2xx status.
C16_PostAnswersAre2xx ==
    (hpc \in {"handled", "answered", "rejected"} /\ response.headersSent)
        => response.status \in 200..299

\* the POST reached mcpHandler with a string body that JSON.parse rejects
UnparseableString ==
    /\ Answered
    /\ bodyParsers(build, wire).isString
    /\ JSONparse(wire.text) = None

\* C17 (as claimed): a string body that cannot be decoded as JSON is answered
\* with the parse error -32700 and id null, and as nothing else.
C17_UnparseableIsParseError ==
    UnparseableString
        => /\ IsSome(response.body)
           /\ response.body[1].kind = "error"
           /\ response.body[1].code = -32700
           /\ response.body[1].id = None
           /\ response.mcpSessionId = None

\* the canonical method name of a spelling that differs from it in letter case
\* or in `.` / `_` for `/`
CanonicalOf(m) ==
    IF m = "INITIALIZE" THEN "initialize"
    ELSE IF m = "notifications.initialized" THEN "notifications/initialized"
    ELSE IF m = "Tools/List" THEN "tools/list"
    ELSE IF m = "tools_call" THEN "tools/call"
    ELSE IF m = "Ping" THEN "ping"
    ELSE m

CanonicalMethods ==
    {"initialize", "notifications/initialized", "tools/list", "tools/call", "ping"}

\* C18 (as claimed, for a request posted alone): a spelling of one of the five
\* methods is answered by the branch of its canonical name.
C18_SpellingsDispatchAlike ==
    ((Handled \/ Answered) /\ Len(Batch) = 1 /\ IsSome(Batch[1].id)
     /\ IsSome(Batch[1].method) /\ CanonicalOf(Batch[1].method[1]) \in CanonicalMethods
     /\ deferred = {})
        => \E a \in AnswersTo(1) : a.of = CanonicalOf(Batch[1].method[1])

\* the Accept header of the request names text/event-stream
AcceptNamesEventStream ==
    IsSome(req.accept)
    /\ \E i \in DOMAIN req.accept[1] : req.accept[1][i].type = "text/event-stream"

\* C19 (as claimed): GET /mcp is answered 405 unless Accept includes
\* text/event-stream, and with an event stream if it does.
C19_GetNeedsEventStream ==
    (hpc = "got")
        => IF AcceptNamesEventStream
           THEN response.contentType = "text/event-stream"
           ELSE response.status = 405

----------------------------------------------------------------------------
(* Properties of the paginated tool call, continued (checked under SpecPage) *)

\* C22 (as claimed): with autoPaginate = false a call that completes has fetched
\* exactly one page, whatever maxResults is.
C22_NoAutoContinueOnePage ==
    (Completed /\ params.autoPaginate = Some(FALSE)) => fetches = 1

\* the limit as the tool's descriptor states it: default 50, at most 100
StatedLimit == IF IsSome(params.limit) THEN Min(params.limit[1], 100) ELSE 50

\* C24 (as claimed): searchByLabelInSpace returns at most `limit` results.
C24_LabelSearchWithinLimit ==
    (Completed /\ tool = "searchByLabelInSpace") => Len(out.results) <= StatedLimit

----------------------------------------------------------------------------
(* Properties of the responses of POST /mcp and GET /mcp (checked under Spec; *)
(* the claim on eventual answers under SpecLive)                              *)

\* the event loop runs every callback that is ready
SpecLive == Spec /\ WF_vars(Next)

\* the answers to the envelope at position i that reached the client: events
\* written before the stream was ended, or the JSON body
Delivered(i) ==
    IF wantsSse
    THEN {sseLog[k].data : k \in {j \in DOMAIN sseLog : sseLog[j].item = i
                                                         /\ ~sseLog[j].afterEnd}}
    ELSE IF IsSome(response.body) THEN {response.body[1]} ELSE {}

\* the request is one tools/call request for a tool its build lists
KnownToolCall ==
    /\ (Handled \/ Answered) /\ Len(Batch) = 1
    /\ Batch[1].method = Some("tools/call") /\ IsSome(Batch[1].id)
    /\ Batch[1].name \in ListedTools(build)

\* C21 (as claimed): a tools/call request for a known tool is eventually
\* answered with a JSON-RPC response carrying its id, a result or, if the
\* handler threw, an error.
C21_ToolCallEventuallyAnswered ==
    KnownToolCall
        ~> (/\ Len(Batch) = 1
            /\ \E a \in Delivered(1) :
                  a.kind \in {"result", "error"} /\ a.id = Batch[1].id)

\* the Accept header of the request selects the single-JSON transport
JsonSelected ==
    ~(QualityOf("text/event-stream", 0) > QualityOf("application/json", 10))

\* C23 (as claimed): an empty batch that selects the single-JSON transport is
\* answered with the invalid-request error -32600.
C23_EmptyBatchInvalidRequest ==
    (Handled /\ Batch = <<>> /\ JsonSelected)
        => /\ IsSome(response.body)
           /\ response.body[1].kind = "error" /\ response.body[1].code = -32600

\* C25 (as claimed, for the envelope posted alone): notifications/initialized
\* without an id is answered 2xx with no body; with an id it is answered with a
\* result under that id; no error is returned.
C25_InitializedAcknowledged ==
    ((Handled \/ Answered) /\ Len(Batch) = 1
     /\ Batch[1].method = Some("notifications/initialized"))
        => /\ response.status \in 200..299
           /\ \A a \in AnswersTo(1) : a.kind # "error"
           /\ IF Batch[1].id = None
              THEN response.body = None /\ sseLog = <<>>
              ELSE \E a \in AnswersTo(1) : a.kind = "result" /\ a.id = Batch[1].id

\* C26: once the client has closed a GET /mcp stream, nothing more is written
\* to it and the keep-alive timer is not armed.
C26_NoKeepAliveAfterClose ==
    [][(hpc = "got" /\ response.state = "closed")
          => (sseLog' = sseLog /\ ~interval /\ ~interval')]_vars

C26_Witness ==
    /\ hpc = "got" /\ response.state = "closed" /\ ~interval
    /\ \E k \in DOMAIN sseLog : sseLog[k].data = ": keep-alive"

\* C27 (as claimed): a dispatched tools/call naming a tool that tools/list of
\* the same build enumerates is not answered with -32601.
C27_ListedToolsDispatch ==
    \A i \in Dispatched :
        (Batch[i].method = Some("tools/call") /\ Batch[i].name \in ListedTools(build))
            => \A a \in AnswersTo(i) : ~(a.kind = "error" /\ a.code = -32601)

\* C28 (as claimed): in the stream transport res.end() is called at most once
\* and no event is written after it.
C28_StreamEndedOnce ==
    (Handled /\ wantsSse)
        => /\ response.endCalls <= 1
           /\ \A k \in DOMAIN sseLog : ~sseLog[k].afterEnd

\* C29 (as claimed): the handler sets no header on a response whose headers
\* have been sent.
C29_HeadersSetBeforeFlush == Handled => ~response.threw

\* the methods the JSON transport answers
SupportedMethods == {Some("initialize"), Some("tools/list"), Some("tools/call")}

\* the first envelope of the batch with a supported method (0: none)
FirstSupported ==
    IF \E i \in DOMAIN Batch : Batch[i].method \in SupportedMethods
    THEN CHOOSE i \in DOMAIN Batch :
            /\ Batch[i].method \in SupportedMethods
            /\ \A j \in DOMAIN Batch : Batch[j].method \in SupportedMethods => i <= j
    ELSE 0

\* one body has been sent, and it answers the first supported envelope, or is
\* the -32600 error with id null if there is none; while the call of that
\* envelope is pending nothing has been sent
OneBodyForFirstSupported ==
    /\ sseLog = <<>> /\ ~response.threw
    /\ IF deferred # {}
       THEN response.body = None /\ response.endCalls = 0
       ELSE /\ response.endCalls = 1 /\ IsSome(response.body)
            /\ IF FirstSupported = 0
               THEN /\ response.body[1].kind = "error"
                    /\ response.body[1].code = -32600
                    /\ response.body[1].id = None
               ELSE /\ response.body[1].id = Batch[FirstSupported].id
                    /\ Some(response.body[1].of) = Batch[FirstSupported].method

\* the batch is a non-empty sequence of notifications (method, no id), which
\* is acknowledged with 202 and no body
NotificationsOnly ==
    /\ Batch # <<>>
    /\ \A i \in DOMAIN Batch : Batch[i].id = None /\ IsSome(Batch[i].method)

\* C30 (as claimed): every POST that selects the single-JSON transport, a batch
\* of notifications aside, is answered with exactly one body: the answer to the
\* first supported envelope, or -32600 with id null if there is none.
C30_OneJsonBody ==
    (Handled /\ JsonSelected /\ ~NotificationsOnly) => OneBodyForFirstSupported

\* the JSON branch itself, reached by every batch that contains a request (an
\* envelope with both id and method), does send that one body
JsonBranchOneBody ==
    (Handled /\ JsonSelected
     /\ \E i \in DOMAIN Batch : IsSome(Batch[i].id) /\ IsSome(Batch[i].method))
        => OneBodyForFirstSupported

JsonBranchSkipsUnsupported ==
    /\ Handled /\ JsonSelected /\ Len(Batch) = 2
    /\ Batch[1].method = Some("bogus") /\ IsSome(Batch[1].id)
    /\ Batch[2].method = Some("tools/list") /\ Batch[2].id = Some(1)
    /\ IsSome(response.body) /\ response.body[1].of = "tools/list"
    /\ response.body[1].id = Some(1) /\ response.endCalls = 1

====
